---- MODULE Spec2Model ----
(***************************************************************************)
(* HybridConductor: the Orchestrator state machine (fsm.py), the Loop      *)
(* Guardian (loop_guardian.py) and the Task Runner (task_runner.py).       *)
(*                                                                         *)
(* Specifications:                                                         *)
(*   Spec         one Orchestrator process: construction, resume(), run()  *)
(*                with the Task Runner executing inside the Building       *)
(*                handler, and the dashboard appending commands.           *)
(*   LiveSpec     Spec with weak fairness of the program's own steps.      *)
(*   RunnerSpec   execute_task() called directly, for every max_iterations *)
(*                in 0..MaxIter.                                           *)
(*   GuardianSpec the Loop Guardian driven through its public operations.  *)
(*   WindowSpec   a run of detect_loop calls on a Guardian whose           *)
(*                iteration_count is past the threshold and whose          *)
(*                hash_history starts empty.                               *)
(*   ResumeSpec   resume() called on a new Orchestrator, for every kind    *)
(*                of session.json it may find.                             *)
(*   ClientSpec   the Isolation Client's create_branch, switch_branch and  *)
(*                commit under every outcome of the service and of git.    *)
(*   HashSpec     compute_normalized_hash applied to one text after        *)
(*                another.                                                 *)
(*   BridgeSpec   the dashboard bridge (backend/dashboard/app.py): its     *)
(*                /api/console requests and the threads they start.        *)
(***************************************************************************)
EXTENDS Integers, Sequences, FiniteSets, TLC

(***************************************************************************)
(* Bounds of the model                                                     *)
(***************************************************************************)
\* largest max_iterations drawn for the configuration
MaxIter == 4
\* largest number of file blocks in one generated response
MaxBlocks == 2
\* largest number of commands waiting in inbox.md
MaxInbox == 1
\* the monotonic clock saturates here (seconds); above every time ceiling drawn
ClockCap == 14
\* longest hash_history kept by the Guardian specification
MaxHist == 4
\* largest iteration_count / retry_count reached in the Guardian specification
MaxCount == 3
\* longest run of detect_loop calls followed by the window specification
MaxCalls == 4
\* largest number of times a paused session is picked up by a new process
MaxRestarts == 1
\* number of /api/console requests the dashboard bridge receives
MaxRequests == 3
\* longest prefix of a run's handler sequence that is kept for observation
MaxTrace == 4

(***************************************************************************)
(* Program constants                                                       *)
(***************************************************************************)
\* fsm.py:448  "if retry_count >= 3"
RetryCeiling == 3
\* task_runner.py:138 "if attempt >= 2: break"
AttemptBreakIndex == 2
\* task_runner.py:312 "if attempt < 2: return False"
DetectLoopMinAttempt == 2
\* loop_guardian.py:173 "if self.iteration_count < 3"
LoopMinIterations == 3
\* loop_guardian.py:179 "self.hash_history[-3:]"
HashWindow == 3
\* loop_guardian.py:90 "self.max_time_minutes * 60"
SecondsPerMinute == 60
\* fsm.py:329 "time.sleep(2)"
LoopSleepSeconds == 2
\* fsm.py:391 "time.sleep(5)"
ApprovalSleepSeconds == 5
\* task_runner.py:281 "timeout=30"
BistTimeoutSeconds == 30

Min(a, b) == IF a <= b THEN a ELSE b
Max(a, b) == IF a >= b THEN a ELSE b

\* class State(Enum)
States == {"planning", "building", "verifying", "debugging", "complete", "failed"}
Terminal == {"complete", "failed"}
\* class ComplexityMode(Enum)
Modes == {"fast", "streamlined", "full"}

(***************************************************************************)
(* Texts and the Hash Normalizer.                                          *)
(* A text is a sequence of tokens.  Each re.sub of normalize_output is a   *)
(* token rewrite; the rewrites are applied in the order of the source.     *)
(***************************************************************************)
IsoTimestamps == {"2026-02-13T10:30:00Z", "2026-02-14T11:45:00Z"}
UnixTimestamps == {"1707841800", "1707845400"}
HexAddrs == {"0x12345678", "0x7fff5fbff000"}
IterationPhrases == {"iteration 1", "iteration 2"}
WinPaths == {"C:\\Users\\dev\\main.py"}
PosixPaths == {"/home/dev/project/main.py", "/var/log/app.log"}
PidPairs == {"pid=12345", "pid=777"}
TidPairs == {"tid=67890"}
\* a pid= and a tid= value of 10 or more digits; a path with a component of
\* 10 or more digits
LongPidPairs == {"pid=1234567890"}
LongTidPairs == {"tid=12345678901"}
DigitPaths == {"/home/1234567890/x.py"}
LoopPatterns == {"while true:", "while(1)", "for(;;)", "loop indefinitely"}
PlainTokens == {"x = 1", "x = 2", "return x", "LOOP_COMPLETE"}

SubTimestamp(tok) == IF tok \in IsoTimestamps THEN "[TIMESTAMP]" ELSE tok
\* r'\b\d{10,}\b' matching inside a longer token: "=" and "/" are not word
\* characters, so the digits after them start at a word boundary
UnixInside(tok) ==
    CASE tok = "pid=1234567890" -> "pid=[UNIX_TIMESTAMP]"
      [] tok = "tid=12345678901" -> "tid=[UNIX_TIMESTAMP]"
      [] tok = "/home/1234567890/x.py" -> "/home/[UNIX_TIMESTAMP]/x.py"
      [] OTHER -> tok
SubUnixTimestamp(tok) ==
    IF tok \in UnixTimestamps THEN "[UNIX_TIMESTAMP]" ELSE UnixInside(tok)
SubHexAddr(tok) == IF tok \in HexAddrs THEN "[HEX_ADDR]" ELSE tok
SubIteration(tok) == IF tok \in IterationPhrases THEN "iteration [N]" ELSE tok
SubWinPath(tok) == IF tok \in WinPaths THEN "[PATH]" ELSE tok
\* r'/([\w\-\.]+/)+[\w\-\.]+': "[" and "]" end a component
SubPosixPath(tok) ==
    IF tok \in PosixPaths \cup DigitPaths THEN "[PATH]" ELSE tok
\* r'\b0x[0-9a-fA-F]{8,16}\b' runs after SubHexAddr has consumed every 0x.. token
SubMemAddr(tok) == tok
\* r'pid=\d+' and r'tid=\d+'
SubPid(tok) == IF tok \in PidPairs \cup LongPidPairs THEN "pid=[PID]" ELSE tok
SubTid(tok) == IF tok \in TidPairs \cup LongTidPairs THEN "tid=[TID]" ELSE tok

normalize_token(tok) ==
    SubTid(SubPid(SubMemAddr(SubPosixPath(SubWinPath(SubIteration(
        SubHexAddr(SubUnixTimestamp(SubTimestamp(tok)))))))))

normalize_output(output) == [i \in DOMAIN output |-> normalize_token(output[i])]

\* SHA-256 of the normalized text: collision-free, so the digest is the
\* normalized text under a tag
compute_normalized_hash(output) == <<"sha256", normalize_output(output)>>

\* the generated outputs the model draws from
code_a == <<"x = 1", "return x">>
code_a_ts1 == <<"x = 1", "return x", "2026-02-13T10:30:00Z">>
code_a_ts2 == <<"x = 1", "return x", "2026-02-14T11:45:00Z">>
code_b == <<"x = 2", "return x">>
code_loop == <<"while true:", "x = 1">>
Outputs == {code_a, code_a_ts1, code_a_ts2, code_b, code_loop}
\* the responses the generation step of the model returns
RunnerOutputs == {code_a, code_b, code_loop}

(***************************************************************************)
(* Loop Guardian: pure parts                                               *)
(***************************************************************************)
\* the last n entries of a list (Python's h[-n:])
LastN(h, n) == SubSeq(h, Max(1, Len(h) - n + 1), Len(h))
InSeq(x, s) == \E i \in DOMAIN s : s[i] = x

\* LoopGuardian.detect_loop on a Guardian with iteration_count ic and
\* hash_history h: the value returned and the hash_history left behind
\* (faulty variant: compares with the last 2 entries only)
detect_loop_alt(ic, h, code_output) ==
    LET current_hash == compute_normalized_hash(code_output)
    IN  IF ic < LoopMinIterations THEN [result |-> FALSE, hash_history |-> h]
        ELSE IF InSeq(current_hash, LastN(h, HashWindow - 1))
        THEN [result |-> TRUE, hash_history |-> h]
        ELSE [result |-> FALSE, hash_history |-> Append(h, current_hash)]
\* (faulty variant: the digest is recorded also when a loop is reported)
detect_loop_recording(ic, h, code_output) ==
    LET current_hash == compute_normalized_hash(code_output)
    IN  IF ic < LoopMinIterations THEN [result |-> FALSE, hash_history |-> h]
        ELSE [result |-> InSeq(current_hash, LastN(h, HashWindow)),
              hash_history |-> Append(h, current_hash)]
detect_loop(ic, h, code_output) ==
    LET current_hash == compute_normalized_hash(code_output)
    IN  IF ic < LoopMinIterations THEN [result |-> FALSE, hash_history |-> h]
        ELSE IF InSeq(current_hash, LastN(h, HashWindow))
        THEN [result |-> TRUE, hash_history |-> h]
        ELSE [result |-> FALSE, hash_history |-> Append(h, current_hash)]

\* max_time_minutes is a float: the model holds it in tenths of a minute
\* (1 stands for 0.1 min), so max_time_minutes * 60 is a whole number of seconds
max_time_seconds(cfg) == (cfg.max_time_minutes * SecondsPerMinute) \div 10

\* faulty variant: the time ceiling is not checked
should_terminate_alt(ic, st, now, cfg) == ic >= cfg.max_iterations

\* faulty variant: the ceilings must be exceeded, not reached
should_terminate_strict(ic, st, now, cfg) ==
    \/ ic > cfg.max_iterations
    \/ now - st > max_time_seconds(cfg)

\* faulty variant: the ceilings must be met exactly
should_terminate_exact(ic, st, now, cfg) ==
    \/ ic = cfg.max_iterations
    \/ now - st = max_time_seconds(cfg)

\* LoopGuardian.should_terminate, on the Guardian's fields and the clock reading
should_terminate(ic, st, now, cfg) ==
    \/ ic >= cfg.max_iterations
    \/ now - st >= max_time_seconds(cfg)

\* a Python float: the double nearest to tenths/10, moved by ulps units in
\* the last place
Float(tenths, ulps) == [tenths |-> tenths, ulps |-> ulps]

\* base_temperature of the configuration, in tenths
BaseTemperature == 7
\* escalation_steps = [0.0, 0.3, 0.6], in tenths
escalation_steps == <<0, 3, 6>>

\* base_temp + escalation in IEEE double arithmetic, for operands that are
\* the doubles nearest a/10 and b/10 with a in 0..10 and b in {0, 3, 6}: the
\* sum is the double nearest (a+b)/10 except for 0.3 + 0.6 and 0.6 + 0.3
\* (0.8999999999999999) and 0.7 + 0.6 (1.2999999999999998), which lie one
\* unit below it
InexactBelow == {<<3, 6>>, <<6, 3>>, <<7, 6>>}
FloatAdd(a, b) ==
    IF <<a, b>> \in InexactBelow THEN Float(a + b, -1) ELSE Float(a + b, 0)

\* values of base_temperature a configuration may carry, in tenths
BaseTemperatures == {5, 7}

\* self.base_temperature = config.get("base_temperature", 0.7), in tenths
base_temperature(cfg) ==
    IF "base_temperature" \in DOMAIN cfg THEN cfg.base_temperature
    ELSE BaseTemperature

\* LoopGuardian.get_escalated_temperature(retry_count) of a Guardian built
\* from cfg
get_escalated_temperature(rc, cfg) ==
    LET escalation == escalation_steps[Min(rc, Len(escalation_steps) - 1) + 1]
    IN  FloatAdd(base_temperature(cfg), escalation)

\* the completion promise of the configuration
completion_promise == "LOOP_COMPLETE"
\* an output that carries the promise
code_done == <<"x = 1", "LOOP_COMPLETE">>

\* LoopGuardian.check_completion_promise(output)
check_completion_promise(output) ==
    \E i \in DOMAIN output : output[i] = completion_promise

(***************************************************************************)
(* Isolation Client (mcp/client.py): pure parts.                           *)
(* A branch name is a sequence of characters.                              *)
(***************************************************************************)
\* characters for which str.isalnum() holds, among those the model draws
AlnumChars == {"a", "Z", "7", "e", "t", "c", "p", "s", "w", "d", "k"}

\* "sanitized[:50]"
BranchNameCap == 50

\* c.isalnum() or c in "-_"
\* (faulty variant: the dot is let through)
Allowed_alt(c) == c \in AlnumChars \/ c \in {"-", "_", "."}
Allowed(c) == c \in AlnumChars \/ c \in {"-", "_"}

\* McpClient._sanitize_branch_name
_sanitize_branch_name(name) ==
    LET sanitized == SelectSeq(name, Allowed)
    IN  SubSeq(sanitized, 1, Min(Len(sanitized), BranchNameCap))

\* what requests.post and raise_for_status do: a 2xx answer, a timeout, a
\* refused connection, a non-2xx answer (the last three are
\* RequestExceptions)
NetOutcomes == {"ok", "timeout", "refused", "status"}
\* what subprocess.run(..., check=True) does: exit code 0, a non-zero exit
\* code (CalledProcessError), a timeout (TimeoutExpired), no git executable
\* (FileNotFoundError, an OSError and no SubprocessError)
GitOutcomes == {"ok", "nonzero", "timeout", "missing"}

\* the exception subprocess.run raises for an outcome
GitError(git) ==
    IF git = "ok" THEN "none"
    ELSE IF git = "missing" THEN "OSError" ELSE "SubprocessError"

\* a request posted to the loopback service
Request(path, arg) == [via |-> "network", op |-> path, arg |-> arg]
\* a git command run as a subprocess
Git(argv) == [via |-> "subprocess", argv |-> argv]
\* an operation's outcome: the external calls it made, in order, and the
\* exception that left it ("none" when it returned)
Done(made, raised) == [calls |-> made, raised |-> raised]

\* McpClient._create_branch_subprocess: "except SubprocessError: raise"
_create_branch_subprocess(name, git) ==
    Done(<<Git(<<"git", "checkout", "-b", name>>)>>, GitError(git))

\* McpClient._switch_branch_subprocess: "except SubprocessError: raise"
_switch_branch_subprocess(name, git) ==
    Done(<<Git(<<"git", "checkout", name>>)>>, GitError(git))

\* "except subprocess.SubprocessError" of _commit_subprocess: logged, not
\* raised
CommitSwallows(err) == err = "SubprocessError"

\* McpClient._commit_subprocess: "git add ." and then "git commit -m";
\* neither call has a timeout
_commit_subprocess(message, add, git) ==
    LET staged == <<Git(<<"git", "add", ".">>)>>
        both == Append(staged, Git(<<"git", "commit", "-m", message>>))
        Left(err) == IF CommitSwallows(err) THEN "none" ELSE err
    IN  IF add # "ok" THEN Done(staged, Left(GitError(add)))
        ELSE Done(both, Left(GitError(git)))

\* the network attempt followed, if it failed, by the fallback
\* (faulty variant: the fallback runs whatever the network call did)
Fallback_alt(request, net, fallback) ==
    Done(<<request>> \o fallback.calls, fallback.raised)
Fallback(request, net, fallback) ==
    IF net = "ok" THEN Done(<<request>>, "none")
    ELSE Done(<<request>> \o fallback.calls, fallback.raised)

\* McpClient.create_branch
create_branch(enabled, name, net, git) ==
    LET sanitized_name == _sanitize_branch_name(name)
    IN  IF ~enabled THEN _create_branch_subprocess(sanitized_name, git)
        ELSE Fallback(Request("/branches", sanitized_name), net,
                      _create_branch_subprocess(sanitized_name, git))

\* McpClient.switch_branch
switch_branch(enabled, name, net, git) ==
    LET sanitized_name == _sanitize_branch_name(name)
    IN  IF ~enabled THEN _switch_branch_subprocess(sanitized_name, git)
        ELSE Fallback(Request("/checkout", sanitized_name), net,
                      _switch_branch_subprocess(sanitized_name, git))

\* McpClient.commit
commit(enabled, message, net, add, git) ==
    IF ~enabled THEN _commit_subprocess(message, add, git)
    ELSE Fallback(Request("/commit", message), net,
                  _commit_subprocess(message, add, git))

(***************************************************************************)
(* State                                                                   *)
(***************************************************************************)
VARIABLES
    config,            \* the configuration bag of the run
    worker_importable, \* whether "from hybridconductor.worker import execute_task" succeeds
    current_state,     \* Orchestrator.current_state
    complexity_mode,   \* Orchestrator.complexity_mode
    pc,                \* position of the Orchestrator process
    iteration_count,   \* LoopGuardian.iteration_count
    retry_count,       \* LoopGuardian.retry_count
    hash_history,      \* LoopGuardian.hash_history
    start_time,        \* LoopGuardian.start_time
    clock,             \* time.monotonic(), in seconds
    plan_exists,       \* state/plan.md exists
    inbox,             \* state/inbox.md: NoFile or the commands it holds
    session,           \* state/session.json: NoFile or the record it holds
    tr_pc,             \* position of the Task Runner
    tr_max,            \* execute_task's max_iterations argument
    attempt,           \* the attempt loop's index
    attempts_made,     \* generation calls made by this execute_task call
    persist_log,       \* responses whose artifacts were copied to the permanent tree
    commit_log,        \* responses committed through the Isolation Client
    tr_result,         \* execute_task's return value
    all_failed,        \* every response of this call so far held a block failing BIST
    late_loopy,        \* per attempt from the third on: its output held a loop pattern
    temperature,       \* what the attempt loop last passed to the generation step
    generated,         \* texts the generation step has returned to a stand-alone call, in order
    branch_setup,      \* how the branch setup at the entry of a stand-alone call ended
    mcp_process,       \* the helper process execute_task launched at entry
    retries_done,      \* Debugging->Building transitions of this run (saturating)
    last_call,         \* the last Guardian operation called, its argument and result
    calls,             \* the calls WindowSpec (detect_loop) and HashSpec record, in order
    inbox_read,        \* _process_inbox_commands: the commands it has read
    at_pause,          \* what the Orchestrator held when pause() was last called
    entry,             \* how this process's run was entered and its first handler
    logged,            \* the statuses the last logging step passed to _log_event
    orchestrator_pid,  \* app_state["orchestrator_pid"] of the dashboard bridge
    replies,           \* the answer each /api/console request has got
    threads,           \* where each request's _run_orchestrator thread stands
    processes          \* the orchestrator subprocesses that are alive

orchVars == <<current_state, complexity_mode, pc, retries_done>>
guardianVars == <<iteration_count, retry_count, hash_history, start_time>>
fsVars == <<plan_exists, inbox, session>>
trVars == <<tr_pc, tr_max, attempt, attempts_made, persist_log, commit_log,
            tr_result, all_failed, late_loopy,
            temperature,
            generated,
            branch_setup,
            mcp_process>>
bridgeVars == <<orchestrator_pid, replies, threads, processes>>
envVars == <<config, worker_importable, bridgeVars>>
obsVars == <<last_call, calls>>
runVars == <<inbox_read, at_pause, entry>>
logVars == <<logged>>
vars == <<envVars, orchVars, guardianVars, clock, fsVars, trVars, obsVars,
          runVars, logVars>>

\* app_state["orchestrator_pid"] when no subprocess is recorded
None == 0
\* the /api/console requests; the subprocess started for request r has pid r
Requests == 1..MaxRequests

\* a file that does not exist
NoFile == [exists |-> FALSE]
\* inbox.md holding the given commands
InboxFile(commands) == [exists |-> TRUE, commands |-> commands]
NoCall == [op |-> "none"]
\* pause() has not been called
NoPause == [paused |-> FALSE, restarts |-> 0]
\* the status run()'s finally block logs when it finds the state s
FinalStatus(s) == IF s = "complete" THEN "COMPLETED" ELSE "FAILED"

\* logged after a step that passed the given statuses to _log_event, in
\* order: unchanged if there are none
Logged(statuses) == IF statuses = <<>> THEN logged ELSE statuses

\* a process that has neither resumed nor run a handler
NoEntry == [resumed_from |-> "none", first |-> "none", handlers |-> <<>>,
            built |-> "none"]

\* the clock after d more seconds (saturating at ClockCap)
Elapse(d) == Min(clock + d, ClockCap)

(***************************************************************************)
(* Task Runner (task_runner.py)                                            *)
(***************************************************************************)
\* the outcome of _run_bist on one file block: exit code 0, exit code not 0,
\* subprocess.TimeoutExpired, subprocess.SubprocessError
BistOutcomes == {"pass", "fail", "timeout", "error"}

\* _run_bist: True only for exit code 0; a timeout or a subprocess error is
\* caught and reported as False
\* (faulty variant: a subprocess error is let through as a pass)
run_bist_alt(outcome) == outcome \in {"pass", "error"}
_run_bist(outcome) == outcome = "pass"

\* every sequence over S of length lo..hi
SeqsOf(S, lo, hi) == UNION {[1..n -> S] : n \in lo..hi}

\* what one call of the generation step returns: the response text and, for
\* each "# filename:" block in it, what BIST will do with that block
Responses == [text : RunnerOutputs, blocks : SeqsOf(BistOutcomes, 0, MaxBlocks)]

\* the responses drawn when the Orchestrator's Building handler makes the
\* call: one text without and one with a loop pattern, and the blocks listed
\* up to the first one failing BIST (the block loop reads no further)
BuildResponses ==
    {r \in Responses :
        /\ r.text \in {code_a, code_loop}
        /\ \A i \in 1..(Len(r.blocks) - 1) : r.blocks[i] = "pass"}

\* the "for block in file_blocks" loop: stops at the first block failing BIST;
\* gives all_bist_success and the number of saved_files
RECURSIVE RunBlocks(_, _, _)
RunBlocks(blocks, i, saved) ==
    IF i > Len(blocks) THEN [all_bist_success |-> TRUE, saved_files |-> saved]
    ELSE IF ~_run_bist(blocks[i])
         THEN [all_bist_success |-> FALSE, saved_files |-> saved]
         ELSE RunBlocks(blocks, i + 1, saved + 1)

\* "if all_bist_success and saved_files"
\* (faulty variant: saved_files is not looked at)
AttemptPasses_alt(resp) == RunBlocks(resp.blocks, 1, 0).all_bist_success
AttemptPasses(resp) ==
    LET r == RunBlocks(resp.blocks, 1, 0)
    IN  r.all_bist_success /\ r.saved_files > 0

\* _detect_loop(code, attempt): a substring heuristic, no hash history
\* (faulty variant: never reports a loop)
detect_loop_runner_alt(code, a) == FALSE
_detect_loop(code, a) ==
    IF a < DetectLoopMinAttempt THEN FALSE
    ELSE \E i \in DOMAIN code : code[i] \in LoopPatterns

\* _get_temperature_for_attempt(attempt): a fixed table, no configuration
temperatures == <<Float(7, 0), Float(10, 0), Float(13, 0)>>
_get_temperature_for_attempt(a) == temperatures[Min(a, Len(temperatures) - 1) + 1]

\* no generation step has been called yet
NoTemperature == [given |-> FALSE]
\* the generation step of attempt a was called with temperature t
Passed(a, t) == [given |-> TRUE, attempt |-> a, value |-> t]

\* seconds spent in BIST by one attempt: each timed-out block costs the timeout
RECURSIVE BistSeconds(_, _)
BistSeconds(blocks, i) ==
    IF i > Len(blocks) THEN 0
    ELSE IF blocks[i] = "timeout" THEN BistTimeoutSeconds
    ELSE IF ~_run_bist(blocks[i]) THEN 0
    ELSE BistSeconds(blocks, i + 1)

\* _launch_mcp_git_server: the Popen object of the git server or, when that
\* cannot be started, of the sleeping stand-in; either way a running child
_launch_mcp_git_server == "running"

\* execute_task entered with max_iterations = n
TREnter(n) ==
    /\ tr_pc' = "setup"
    /\ tr_max' = n
    /\ attempt' = 0
    /\ attempts_made' = 0
    /\ persist_log' = <<>>
    /\ commit_log' = <<>>
    /\ tr_result' = FALSE
    /\ all_failed' = TRUE
    /\ late_loopy' = <<>>
    /\ temperature' = NoTemperature
    /\ generated' = <<>>
    /\ branch_setup' = "none"
    /\ mcp_process' = _launch_mcp_git_server

\* execute_task has returned to its caller: its locals are gone
TRLeave ==
    /\ tr_pc' = "idle"
    /\ tr_max' = 0
    /\ attempt' = 0
    /\ attempts_made' = 0
    /\ persist_log' = <<>>
    /\ commit_log' = <<>>
    /\ tr_result' = FALSE
    /\ all_failed' = TRUE
    /\ late_loopy' = <<>>
    /\ temperature' = NoTemperature
    /\ generated' = <<>>
    /\ branch_setup' = "none"
    /\ mcp_process' = "none"

\* some block of the response does not exit with code 0
SomeBlockFails(resp) == \E i \in DOMAIN resp.blocks : resp.blocks[i] # "pass"
\* the response text holds one of the loop patterns
HasLoopPattern(text) == \E i \in DOMAIN text : text[i] \in LoopPatterns

\* "for attempt in range(max_iterations)": the loop body runs for this index
\* (faulty variant: one index too many)
InRange_alt(a, n) == a <= n
InRange(a, n) == a < n

\* the bookkeeping of a call once it is over: a stand-alone caller inspects
\* it, the Building handler reads the return value and nothing else
AfterCall(v, gone) == IF pc = "caller" THEN v ELSE gone

\* how mcp_process.wait(timeout=5) ends after terminate()
WaitOutcomes == {"exited", "TimeoutExpired"}

\* the finally block of execute_task: terminate(), wait(timeout=5) and, on
\* TimeoutExpired, kill()
\* (faulty variant: a helper that outlives the wait is left alone)
Cleanup_alt(waited) == IF waited = "TimeoutExpired" THEN "running" ELSE "terminated"
Cleanup(waited) == IF waited = "TimeoutExpired" THEN "killed" ELSE "terminated"

\* execute_task is left, by a return or by an exception
Finally ==
    \E waited \in WaitOutcomes : mcp_process' = AfterCall(Cleanup(waited), "none")

\* branch_name = f"task-{task_id}": "task-" and hexadecimal digits
branch_name == <<"t", "a", "s", "k", "-", "7", "e">>

\* "except Exception" around create_branch and switch_branch
\* (faulty variant: only subprocess errors are caught)
SetupCatches_alt(err) == err = "SubprocessError"
SetupCatches(err) == err \in {"SubprocessError", "OSError"}

\* the try block at the entry of _execute_task_logic: create_branch, then
\* switch_branch if that returned; the exception that leaves the block
\* ("none" if both returned)
SetupRaised(enabled, net1, git1, net2, git2) ==
    LET created == create_branch(enabled, branch_name, net1, git1)
        switched == switch_branch(enabled, branch_name, net2, git2)
    IN  IF created.raised # "none" THEN created.raised ELSE switched.raised

\* what the try block can end with, over offline mode and every outcome of
\* the service and of git
SetupOutcomes ==
    {SetupRaised(enabled, net1, git1, net2, git2) :
        enabled \in BOOLEAN, net1 \in NetOutcomes, git1 \in GitOutcomes,
        net2 \in NetOutcomes, git2 \in GitOutcomes}

\* the branch setup of _execute_task_logic: an exception is printed and the
\* attempt loop is entered all the same
TRSetup ==
    \E raised \in SetupOutcomes :
        LET enters == raised = "none" \/ SetupCatches(raised)
        IN  /\ tr_pc = "setup"
            /\ tr_pc' = IF enters THEN "running" ELSE "raised"
            /\ branch_setup' = AfterCall(IF raised = "none" THEN "done"
                                         ELSE "failed", "none")
            /\ IF enters THEN UNCHANGED mcp_process ELSE Finally
            /\ UNCHANGED <<tr_max, attempt, attempts_made, persist_log,
                           commit_log, tr_result, all_failed, late_loopy,
                           temperature, generated>>
            /\ UNCHANGED <<envVars, logVars, orchVars, guardianVars, clock,
                           fsVars, obsVars, runVars>>

\* one pass of "for attempt in range(max_iterations)" whose generation step
\* returned resp
TRAttempt(resp) ==
    LET passes == AttemptPasses(resp)
        goes_on == /\ ~passes
                   /\ \/ _detect_loop(resp.text, attempt)
                      \/ attempt < AttemptBreakIndex
        made == attempts_made + 1
        failed == all_failed /\ SomeBlockFails(resp)
        loopy == IF attempt >= DetectLoopMinAttempt
                 THEN Append(late_loopy, HasLoopPattern(resp.text))
                 ELSE late_loopy
        passed == Passed(attempt, _get_temperature_for_attempt(attempt))
        texts == AfterCall(Append(generated, resp.text), <<>>)
    IN  /\ tr_pc = "running"
        /\ InRange(attempt, tr_max)
        /\ clock' = Elapse(BistSeconds(resp.blocks, 1))
        /\ IF passes
           THEN /\ persist_log' = AfterCall(Append(persist_log, resp), <<>>)
                /\ commit_log' = AfterCall(Append(commit_log, resp), <<>>)
                /\ tr_result' = TRUE
                /\ tr_pc' = "returned"
           ELSE /\ UNCHANGED <<persist_log, commit_log>>
                /\ IF goes_on
                   THEN UNCHANGED <<tr_pc, tr_result>>
                   ELSE /\ tr_result' = FALSE
                        /\ tr_pc' = "returned"
        /\ IF goes_on
           THEN /\ attempt' = attempt + 1
                /\ attempts_made' = made
                /\ all_failed' = failed
                /\ late_loopy' = loopy
                /\ temperature' = passed
                /\ generated' = texts
                /\ UNCHANGED tr_max
           ELSE /\ attempt' = AfterCall(attempt, 0)
                /\ attempts_made' = AfterCall(made, 0)
                /\ all_failed' = AfterCall(failed, TRUE)
                /\ late_loopy' = AfterCall(loopy, <<>>)
                /\ temperature' = AfterCall(passed, NoTemperature)
                /\ generated' = texts
                /\ tr_max' = AfterCall(tr_max, 0)
        /\ UNCHANGED <<envVars, logVars, orchVars, guardianVars, fsVars, obsVars, runVars>>
        /\ UNCHANGED branch_setup
        /\ IF goes_on THEN UNCHANGED mcp_process ELSE Finally

\* one pass in which the generation step, or writing a block to the
\* workspace, raises: nothing in _execute_task_logic catches it
TRAttemptRaises ==
    /\ tr_pc = "running"
    /\ InRange(attempt, tr_max)
    /\ tr_pc' = "raised"
    /\ attempt' = AfterCall(attempt, 0)
    /\ attempts_made' = AfterCall(attempts_made + 1, 0)
    /\ all_failed' = AfterCall(FALSE, TRUE)
    /\ late_loopy' = AfterCall(late_loopy, <<>>)
    /\ temperature' = AfterCall(temperature, NoTemperature)
    /\ generated' = AfterCall(generated, <<>>)
    /\ UNCHANGED branch_setup
    /\ Finally
    /\ tr_max' = AfterCall(tr_max, 0)
    /\ UNCHANGED <<persist_log, commit_log, tr_result>>
    /\ UNCHANGED <<envVars, logVars, orchVars, guardianVars, clock, fsVars, obsVars, runVars>>

\* range(max_iterations) is exhausted: "return False"
TRExhausted ==
    /\ tr_pc = "running"
    /\ ~InRange(attempt, tr_max)
    /\ tr_result' = FALSE
    /\ tr_pc' = "returned"
    /\ attempt' = AfterCall(attempt, 0)
    /\ attempts_made' = AfterCall(attempts_made, 0)
    /\ all_failed' = AfterCall(all_failed, TRUE)
    /\ late_loopy' = AfterCall(late_loopy, <<>>)
    /\ temperature' = AfterCall(temperature, NoTemperature)
    /\ generated' = AfterCall(generated, <<>>)
    /\ UNCHANGED branch_setup
    /\ Finally
    /\ tr_max' = AfterCall(tr_max, 0)
    /\ UNCHANGED <<persist_log, commit_log>>
    /\ UNCHANGED <<envVars, logVars, orchVars, guardianVars, clock, fsVars, obsVars, runVars>>

TRStep(responses) ==
    \/ TRSetup
    \/ \E resp \in responses : TRAttempt(resp)
    \/ TRAttemptRaises
    \/ TRExhausted

(***************************************************************************)
(* Orchestrator (fsm.py)                                                   *)
(***************************************************************************)
Commands == {"/pause", "/checkpoint", "/rollback"}
Finished == {"done", "raised", "halted"}

\* LoopGuardian.to_dict: the serializable view of the Guardian
to_dict ==
    [iteration_count |-> iteration_count, retry_count |-> retry_count,
     hash_history |-> hash_history, elapsed |-> clock - start_time]

\* faulty variant: the saved mode is ignored
set_complexity_mode_alt(mode) == "streamlined"
\* set_complexity_mode: mode_map.get(mode, STREAMLINED)
set_complexity_mode(mode) == IF mode \in Modes THEN mode ELSE "streamlined"

\* faulty variant of the record pause() writes: the state the run started in
SessionRecord_alt ==
    [exists |-> TRUE, current_state |-> "planning",
     complexity_mode |-> complexity_mode, loop_guardian |-> to_dict,
     timestamp |-> "now"]

\* the record pause() writes to session.json
SessionRecord ==
    [exists |-> TRUE, current_state |-> current_state,
     complexity_mode |-> complexity_mode, loop_guardian |-> to_dict,
     timestamp |-> "now"]

\* what the Orchestrator and its Guardian hold of a run
Held ==
    [current_state |-> current_state, complexity_mode |-> complexity_mode,
     iteration_count |-> iteration_count, retry_count |-> retry_count,
     hash_history |-> hash_history, start_time |-> start_time]

\* LoopGuardian.from_dict on a Guardian holding h, at clock reading now:
\* the counters and the digest history are taken over and the elapsed time
\* already spent is carried on
from_dict(h, snapshot, now) ==
    [h EXCEPT !.iteration_count = snapshot.iteration_count,
              !.retry_count = snapshot.retry_count,
              !.hash_history = snapshot.hash_history,
              !.start_time = now - snapshot.elapsed]

\* resume() on the file found at session.json, by an Orchestrator holding h:
\* the value returned and what the Orchestrator holds afterwards. Each
\* data[...] lookup and State(...) may raise inside the try; what was
\* assigned before stays assigned
\* (faulty variant: an unknown state name is taken over instead of raising)
resume_alt(file, h, now) ==
    IF ~file.exists THEN [ok |-> FALSE, held |-> h]
    ELSE IF "garbage" \in DOMAIN file THEN [ok |-> FALSE, held |-> h]
    ELSE IF "current_state" \notin DOMAIN file THEN [ok |-> FALSE, held |-> h]
    ELSE LET h1 == [h EXCEPT !.current_state = file.current_state]
         IN  IF "complexity_mode" \notin DOMAIN file
             THEN [ok |-> FALSE, held |-> h1]
             ELSE LET h2 == [h1 EXCEPT !.complexity_mode =
                                 set_complexity_mode(file.complexity_mode)]
                  IN  IF "loop_guardian" \notin DOMAIN file
                      THEN [ok |-> FALSE, held |-> h2]
                      ELSE LET h3 == from_dict(h2, file.loop_guardian, now)
                           IN  IF "timestamp" \notin DOMAIN file
                               THEN [ok |-> FALSE, held |-> h3]
                               ELSE [ok |-> TRUE, held |-> h3]
resume(file, h, now) ==
    IF ~file.exists THEN [ok |-> FALSE, held |-> h]
    ELSE IF "garbage" \in DOMAIN file THEN [ok |-> FALSE, held |-> h]
    ELSE IF "current_state" \notin DOMAIN file THEN [ok |-> FALSE, held |-> h]
    ELSE IF file.current_state \notin States THEN [ok |-> FALSE, held |-> h]
    ELSE LET h1 == [h EXCEPT !.current_state = file.current_state]
         IN  IF "complexity_mode" \notin DOMAIN file
             THEN [ok |-> FALSE, held |-> h1]
             ELSE LET h2 == [h1 EXCEPT !.complexity_mode =
                                 set_complexity_mode(file.complexity_mode)]
                  IN  IF "loop_guardian" \notin DOMAIN file
                      THEN [ok |-> FALSE, held |-> h2]
                      ELSE LET h3 == from_dict(h2, file.loop_guardian, now)
                           IN  IF "timestamp" \notin DOMAIN file
                               THEN [ok |-> FALSE, held |-> h3]
                               ELSE [ok |-> TRUE, held |-> h3]

\* session.json as a process may find it at start: absent, or left by an
\* earlier process that was paused in Debugging
InitialSessions ==
    {NoFile} \cup
    [exists : {TRUE}, current_state : {"debugging"},
     complexity_mode : {"fast"},
     loop_guardian : [iteration_count : {0}, retry_count : {0, RetryCeiling},
                      hash_history : {<<>>}, elapsed : {0}],
     timestamp : {"now"}]

Configs ==
    [max_iterations : {0, 1, MaxIter}, max_time_minutes : {0, 1, 2},
     default_complexity : Modes]

\* Orchestrator.__init__ and LoopGuardian.__init__
Init ==
    /\ config \in Configs
    /\ worker_importable \in BOOLEAN
    /\ current_state = "planning"
    /\ complexity_mode = config.default_complexity
    /\ pc = "init"
    /\ iteration_count = 0
    /\ retry_count = 0
    /\ hash_history = <<>>
    /\ start_time = 0
    /\ clock = 0
    /\ plan_exists \in BOOLEAN
    /\ inbox = NoFile
    /\ session \in InitialSessions
    /\ tr_pc = "idle"
    /\ tr_max = 0
    /\ attempt = 0
    /\ attempts_made = 0
    /\ persist_log = <<>>
    /\ commit_log = <<>>
    /\ tr_result = FALSE
    /\ all_failed = TRUE
    /\ late_loopy = <<>>
    /\ temperature = NoTemperature
    /\ generated = <<>>
    /\ branch_setup = "none"
    /\ mcp_process = "none"
    /\ retries_done = 0
    /\ last_call = NoCall
    /\ calls = <<>>
    /\ inbox_read = <<>>
    /\ at_pause = NoPause
    /\ entry = NoEntry
    /\ logged = <<>>
    /\ orchestrator_pid = None
    /\ replies = [r \in Requests |-> "none"]
    /\ threads = [r \in Requests |-> "none"]
    /\ processes = {}

\* Orchestrator.resume, called on a newly constructed Orchestrator; the
\* caller goes on to run() whatever it returned
Resume ==
    /\ pc \in {"init", "restarted"}
    /\ LET r == resume(session, Held, clock)
       IN  /\ pc' = IF r.ok THEN "resumed" ELSE "not_resumed"
           /\ current_state' = r.held.current_state
           /\ complexity_mode' = r.held.complexity_mode
           /\ iteration_count' = r.held.iteration_count
           /\ retry_count' = r.held.retry_count
           /\ hash_history' = r.held.hash_history
           /\ start_time' = r.held.start_time
           /\ entry' = IF r.ok
                       THEN [entry EXCEPT !.resumed_from = session.current_state]
                       ELSE entry
    /\ logged' = IF resume(session, Held, clock).ok THEN Logged(<<"RESUMED">>)
                 ELSE logged
    /\ UNCHANGED <<envVars, retries_done, clock, fsVars, trVars, obsVars,
                   inbox_read, at_pause>>

\* faulty variant of RunStart: run() starts over from Planning
RunStart_alt ==
    /\ pc \in {"init", "resumed", "not_resumed"}
    /\ pc' = "loop"
    /\ current_state' = "planning"
    /\ retries_done' = 0
    /\ logged' = Logged(<<"STARTED">>)
    /\ UNCHANGED <<envVars, complexity_mode, guardianVars,
                   clock, fsVars, trVars, obsVars, runVars>>

\* run(): up to the first test of the while condition
RunStart ==
    /\ pc \in {"init", "resumed", "not_resumed"}
    /\ pc' = "loop"
    /\ retries_done' = 0
    /\ logged' = Logged(<<"STARTED">>)
    /\ UNCHANGED <<envVars, current_state, complexity_mode, guardianVars,
                   clock, fsVars, trVars, obsVars, runVars>>

\* the while condition is false: the loop is left and run() returns
LoopExit ==
    /\ pc = "loop"
    /\ current_state \in Terminal
    /\ pc' = "done"
    /\ logged' = Logged(<<FinalStatus(current_state)>>)
    /\ UNCHANGED <<envVars, current_state, complexity_mode, retries_done,
                   guardianVars, clock, fsVars, trVars, obsVars, runVars>>

\* the run's record once the handler of state s has been dispatched
Entered(s) ==
    [entry EXCEPT !.first = IF @ = "none" THEN s ELSE @,
                  !.handlers = IF Len(@) < MaxTrace THEN Append(@, s) ELSE @]

\* the run's record once execute_task has returned r to the Building handler
Built(r) ==
    [entry EXCEPT !.built = IF @ = "none"
                            THEN (IF r THEN "success" ELSE "failure")
                            ELSE @]

\* _handle_planning
HandlePlanning ==
    /\ pc = "loop"
    /\ current_state = "planning"
    /\ plan_exists' = TRUE
    /\ clock' = IF complexity_mode = "fast" THEN clock
                ELSE Elapse(ApprovalSleepSeconds)
    /\ current_state' = "building"
    /\ pc' = "inbox"
    /\ logged' = Logged(<<"RUNNING", "RUNNING">>)
    /\ UNCHANGED <<envVars, complexity_mode, retries_done, guardianVars,
                   inbox, session, trVars, obsVars, inbox_read, at_pause>>
    /\ entry' = Entered("planning")

\* _handle_building, up to the call of execute_task
BuildingStart ==
    /\ pc = "loop"
    /\ current_state = "building"
    /\ \/ /\ ~worker_importable
          /\ current_state' = "failed"
          /\ pc' = "inbox"
          /\ UNCHANGED trVars
       \/ /\ worker_importable
          /\ ~plan_exists
          /\ current_state' = "failed"
          /\ pc' = "inbox"
          /\ UNCHANGED trVars
       \/ /\ worker_importable
          /\ plan_exists
          /\ TREnter(config.max_iterations)
          /\ pc' = "building"
          /\ UNCHANGED current_state
    /\ logged' = Logged(<<"RUNNING">>)
    /\ UNCHANGED <<envVars, complexity_mode, retries_done, guardianVars,
                   clock, fsVars, obsVars, inbox_read, at_pause>>
    /\ entry' = Entered("building")

\* the state the Building handler moves to on execute_task's result
\* (faulty variant: skips Verifying and Debugging)
BuildingTarget_alt(success) == IF success THEN "complete" ELSE "failed"
BuildingTarget(success) == IF success THEN "verifying" ELSE "debugging"

\* _handle_building, from the return of execute_task
BuildingFinish ==
    /\ pc = "building"
    /\ tr_pc = "returned"
    /\ current_state' = BuildingTarget(tr_result)
    /\ pc' = "inbox"
    /\ TRLeave
    /\ entry' = Built(tr_result)
    /\ UNCHANGED <<envVars, logVars, complexity_mode, retries_done, guardianVars,
                   clock, fsVars, obsVars, inbox_read, at_pause>>

\* execute_task raised: run()'s "except Exception" sets FAILED and re-raises
RunExcept ==
    /\ pc = "building"
    /\ tr_pc = "raised"
    /\ current_state' = "failed"
    /\ pc' = "raised"
    /\ logged' = Logged(<<"ERROR", FinalStatus("failed")>>)
    /\ UNCHANGED <<envVars, complexity_mode, retries_done, guardianVars,
                   clock, fsVars, trVars, obsVars, runVars>>

\* the state the Verifying handler moves to ("assume verification passes")
VerifyingTarget_alt == "debugging"
VerifyingTarget == "complete"

\* _handle_verifying
HandleVerifying ==
    /\ pc = "loop"
    /\ current_state = "verifying"
    /\ current_state' = VerifyingTarget
    /\ pc' = "inbox"
    /\ logged' = Logged(<<"RUNNING">>)
    /\ UNCHANGED <<envVars, complexity_mode, retries_done, guardianVars,
                   clock, fsVars, trVars, obsVars, inbox_read, at_pause>>
    /\ entry' = Entered("verifying")

\* the state the Debugging handler moves to on get_retry_count()
DebuggingTarget(rc) == IF rc >= RetryCeiling THEN "failed" ELSE "building"

\* _handle_debugging
HandleDebugging ==
    /\ pc = "loop"
    /\ current_state = "debugging"
    /\ current_state' = DebuggingTarget(retry_count)
    /\ retries_done' = IF DebuggingTarget(retry_count) = "building"
                       THEN Min(retries_done + 1, RetryCeiling + 1)
                       ELSE retries_done
    /\ pc' = "inbox"
    /\ logged' = Logged(<<"RUNNING">>)
    /\ UNCHANGED <<envVars, complexity_mode, guardianVars, clock, fsVars,
                   trVars, obsVars, inbox_read, at_pause>>
    /\ entry' = Entered("debugging")

\* the status _process_inbox_commands logs for a /checkpoint command
CheckpointStatus == "CHECKPOINT"

\* the statuses the command loop logs from the i-th command on: /checkpoint
\* logs one, /pause logs PAUSED and exits the process through run()'s
\* finally block, which logs the final status, /rollback logs nothing
RECURSIVE CommandStatuses(_, _)
CommandStatuses(commands, i) ==
    IF i > Len(commands) THEN <<>>
    ELSE IF commands[i] = "/pause"
         THEN <<"PAUSED", FinalStatus(current_state)>>
    ELSE IF commands[i] = "/checkpoint"
         THEN <<CheckpointStatus>> \o CommandStatuses(commands, i + 1)
    ELSE CommandStatuses(commands, i + 1)

\* whether the command loop of _process_inbox_commands reaches a /pause
ReachesPause(commands) == \E i \in DOMAIN commands : commands[i] = "/pause"

\* _process_inbox_commands, up to the end of the read: returns at once when
\* inbox.md does not exist
InboxRead ==
    /\ pc = "inbox"
    /\ IF inbox = NoFile
       THEN /\ pc' = "check"
            /\ UNCHANGED inbox_read
       ELSE /\ inbox_read' = inbox.commands
            /\ pc' = "commands"
    /\ UNCHANGED <<envVars, logVars, current_state, complexity_mode, retries_done,
                   guardianVars, clock, fsVars, trVars, obsVars, at_pause,
                   entry>>

\* "inbox_path.unlink()": what is left of inbox.md
Unlinked(file) == NoFile

\* _process_inbox_commands, from the command loop on: pause() writes
\* session.json and exits the process before the inbox is unlinked; with no
\* /pause among the commands read the loop ends and the file is unlinked
RunCommands ==
    /\ pc = "commands"
    /\ IF ReachesPause(inbox_read)
       THEN /\ session' = SessionRecord
            /\ at_pause' = [paused |-> TRUE, held |-> Held,
                            restarts |-> at_pause.restarts]
            /\ pc' = "halted"
            /\ UNCHANGED inbox
       ELSE /\ inbox' = Unlinked(inbox)
            /\ pc' = "check"
            /\ UNCHANGED <<session, at_pause>>
    /\ inbox_read' = <<>>
    /\ logged' = Logged(CommandStatuses(inbox_read, 1))
    /\ UNCHANGED <<envVars, current_state, complexity_mode, retries_done,
                   guardianVars, clock, plan_exists, trVars, obsVars, entry>>

\* the state after the end-of-iteration check found should_terminate() true
\* (faulty variant: breaks without setting FAILED)
TerminateTarget_alt(s) == s
TerminateTarget(s) == "failed"

\* "if self.loop_guardian.should_terminate(): FAILED; break", else time.sleep(2)
CheckTerminate ==
    /\ pc = "check"
    /\ IF should_terminate(iteration_count, start_time, clock, config)
       THEN /\ current_state' = TerminateTarget(current_state)
            /\ pc' = "done"
            /\ UNCHANGED clock
       ELSE /\ pc' = "loop"
            /\ clock' = Elapse(LoopSleepSeconds)
            /\ UNCHANGED current_state
    /\ logged' = IF should_terminate(iteration_count, start_time, clock, config)
                 THEN Logged(<<FinalStatus(TerminateTarget(current_state))>>)
                 ELSE logged
    /\ UNCHANGED <<envVars, complexity_mode, retries_done, guardianVars,
                   fsVars, trVars, obsVars, runVars>>

\* the commands inbox.md has room for: MaxInbox, and at least one more than
\* a drain that has read a single command has read, while that drain is
\* between its read and its unlink
InboxRoom ==
    IF pc = "commands" /\ Len(inbox_read) = 1
    THEN Max(MaxInbox, Len(inbox_read) + 1)
    ELSE MaxInbox

\* dashboard save_command: appends one command to inbox.md
SaveCommand(command) ==
    /\ pc \notin Finished
    /\ IF inbox = NoFile
       THEN inbox' = InboxFile(<<command>>)
       ELSE /\ Len(inbox.commands) < InboxRoom
            /\ inbox' = InboxFile(Append(inbox.commands, command))
    /\ UNCHANGED <<envVars, logVars, orchVars, guardianVars, clock, plan_exists,
                   session, trVars, obsVars, runVars>>

\* after pause() has exited the process, a new process is started on the
\* same state directory to resume the session: Orchestrator.__init__ and
\* LoopGuardian.__init__
Restart ==
    /\ pc = "halted"
    /\ at_pause.restarts < MaxRestarts
    /\ at_pause' = [at_pause EXCEPT !.restarts = @ + 1]
    /\ pc' = "restarted"
    /\ current_state' = "planning"
    /\ complexity_mode' = config.default_complexity
    /\ retries_done' = 0
    /\ iteration_count' = 0
    /\ retry_count' = 0
    /\ hash_history' = <<>>
    /\ start_time' = clock
    /\ entry' = NoEntry
    /\ UNCHANGED <<envVars, logVars, clock, fsVars, trVars, obsVars, inbox_read>>

\* the steps of the Orchestrator process itself
ProgramStep ==
    \/ Resume
    \/ RunStart
    \/ LoopExit
    \/ HandlePlanning
    \/ BuildingStart
    \/ (pc = "building" /\ TRStep(BuildResponses))
    \/ BuildingFinish
    \/ RunExcept
    \/ HandleVerifying
    \/ HandleDebugging
    \/ InboxRead
    \/ RunCommands
    \/ CheckTerminate

Next ==
    \/ ProgramStep
    \/ \E command \in Commands : SaveCommand(command)
    \/ Restart

Spec == Init /\ [][Next]_vars

\* the main loop is sequential and every call it makes returns
LiveSpec == Spec /\ WF_vars(ProgramStep)

(***************************************************************************)
(* Claims about the Orchestrator                                           *)
(***************************************************************************)
\* positions outside run(): before it has been entered, and after pause()
\* has exited the process
PreRun == {"init", "restarted", "resumed", "not_resumed", "halted"}

\* the edges of section 4.5
SpecEdges ==
    {<<"planning", "building">>, <<"building", "verifying">>,
     <<"building", "debugging">>, <<"verifying", "complete">>,
     <<"verifying", "debugging">>, <<"debugging", "building">>,
     <<"debugging", "failed">>}

\* the step is the end-of-iteration check finding should_terminate() true
ForcedByGuardian ==
    /\ pc = "check"
    /\ should_terminate(iteration_count, start_time, clock, config)
    /\ current_state' = "failed"

\* C1 as stated: every change of current_state during run() follows one of
\* the seven edges of section 4.5 or is forced to Failed by should_terminate()
C1_OnlySpecEdges ==
    [][(pc \notin PreRun /\ current_state' # current_state)
        => (<<current_state, current_state'>> \in SpecEdges \/ ForcedByGuardian)]_vars

\* C1 amended: every change of current_state during run() follows one of the
\* seven edges, or is Building->Failed made by the Building handler because
\* the worker cannot be imported or plan.md is missing, or is a change to
\* Failed made by run()'s exception handler, or is forced to Failed by
\* should_terminate(); in particular Planning->Verifying and
\* Building->Complete never occur
C1_Edges ==
    [][(pc \notin PreRun /\ current_state' # current_state)
        => \/ <<current_state, current_state'>> \in SpecEdges
           \/ ForcedByGuardian
           \/ /\ pc = "loop"
              /\ current_state = "building"
              /\ current_state' = "failed"
              /\ (~worker_importable \/ ~plan_exists)
           \/ /\ pc = "building"
              /\ tr_pc = "raised"
              /\ current_state' = "failed"]_vars

\* the Building handler has just set Failed because plan.md is missing
C1_Witness ==
    /\ pc = "inbox"
    /\ current_state = "failed"
    /\ worker_importable
    /\ ~plan_exists
    /\ retry_count < RetryCeiling

\* C2 as stated: once current_state is Complete or Failed during run(), it
\* never changes again in that run
C2_TerminalStatesStay ==
    [][(pc \notin PreRun /\ current_state \in Terminal)
        => current_state' = current_state]_vars

\* C3 as stated: in a run with retry_count = 0 at its start the Debugging
\* handler returns to Building at most 3 times
C3_RetryCeilingEnforced ==
    retry_count = 0 => retries_done <= RetryCeiling

\* C4: whenever should_terminate() is true when the process takes its
\* end-of-iteration check, current_state becomes Failed and the loop is left:
\* run() is done and executes no further handler
C4_TerminateForcesFailed ==
    [][/\ (/\ pc = "check"
           /\ pc' # "check"
           /\ should_terminate(iteration_count, start_time, clock, config))
          => (current_state' = "failed" /\ pc' = "done")
       /\ pc = "done" => (pc' = "done" /\ current_state' = current_state)]_vars

\* a run that only the end-of-iteration check can have failed: no exception,
\* the worker and the plan present, the retry ceiling not reached
C4_Witness ==
    /\ pc = "done"
    /\ current_state = "failed"
    /\ worker_importable
    /\ plan_exists
    /\ retry_count < RetryCeiling
    /\ retries_done > 0

\* C5: under weak fairness of the process's steps every run ends: run()
\* leaves its loop with current_state Complete or Failed, or the process
\* halts in pause()
C5_RunTerminates ==
    <>(\/ pc \in {"done", "raised"} /\ current_state \in Terminal
       \/ pc = "halted")

\* a run whose Task Runner kept failing has ended
C5_Witness ==
    /\ pc = "done"
    /\ current_state = "failed"
    /\ retries_done >= 2
    /\ config.max_iterations > 0

\* C9 as stated: no attempt-local error leaves execute() or the main loop
C9_NoErrorEscapes == tr_pc # "raised" /\ pc # "raised"

(***************************************************************************)
(* execute_task called directly                                            *)
(***************************************************************************)
\* a caller has just entered execute_task with some max_iterations
RunnerInit ==
    /\ config \in [max_iterations : 0..MaxIter, max_time_minutes : {2},
                   default_complexity : {"fast"},
                   base_temperature : BaseTemperatures]
    /\ worker_importable = TRUE
    /\ current_state = "building"
    /\ complexity_mode = config.default_complexity
    /\ pc = "caller"
    /\ iteration_count = 0
    /\ retry_count = 0
    /\ hash_history = <<>>
    /\ start_time = 0
    /\ clock = 0
    /\ plan_exists = TRUE
    /\ inbox = NoFile
    /\ session = NoFile
    /\ tr_pc = "setup"
    /\ tr_max = config.max_iterations
    /\ attempt = 0
    /\ attempts_made = 0
    /\ persist_log = <<>>
    /\ commit_log = <<>>
    /\ tr_result = FALSE
    /\ all_failed = TRUE
    /\ late_loopy = <<>>
    /\ temperature = NoTemperature
    /\ generated = <<>>
    /\ branch_setup = "none"
    /\ mcp_process = _launch_mcp_git_server
    /\ retries_done = 0
    /\ last_call = NoCall
    /\ calls = <<>>
    /\ inbox_read = <<>>
    /\ at_pause = NoPause
    /\ entry = NoEntry
    /\ logged = <<>>
    /\ orchestrator_pid = None
    /\ replies = [r \in Requests |-> "none"]
    /\ threads = [r \in Requests |-> "none"]
    /\ processes = {}

RunnerNext == TRStep(Responses)

RunnerSpec == RunnerInit /\ [][RunnerNext]_vars

C7_ExactlyThreeAttempts ==
    (tr_pc = "returned" /\ tr_max >= 3 /\ all_failed)
        => (attempts_made = 3 /\ ~tr_result /\ commit_log = <<>>)

\* C7 amended: with max_iterations >= 3 and every output failing BIST,
\* execute() returns False without committing after at least 3 and at most
\* max_iterations attempts: it stops at the first attempt, from the third
\* on, whose output holds no loop pattern, so it makes exactly 3 attempts
\* unless the third output holds one
C7_ThreeAttemptsUnlessLoop ==
    (tr_pc = "returned" /\ tr_max >= 3 /\ all_failed)
        => /\ ~tr_result
           /\ commit_log = <<>>
           /\ attempts_made >= 3
           /\ attempts_made <= tr_max
           /\ Len(late_loopy) = attempts_made - DetectLoopMinAttempt
           /\ \A i \in 1..(Len(late_loopy) - 1) : late_loopy[i]
           /\ attempts_made < tr_max => ~late_loopy[Len(late_loopy)]

\* every output failed BIST, the third held no loop pattern: 3 attempts of 4
C7_Witness ==
    /\ tr_pc = "returned"
    /\ all_failed
    /\ tr_max > 3
    /\ attempts_made = 3
    /\ ~tr_result

\* C8: execute() makes at most max_iterations attempts (attempt_index stays
\* in 0..max_iterations-1 while an attempt runs); it returns False when no
\* attempt succeeded, and with max_iterations = 0 it makes no attempt and
\* returns False
C8_AttemptsBounded ==
    /\ attempts_made <= tr_max
    /\ attempt <= tr_max
    /\ (tr_pc = "returned" /\ persist_log = <<>>) => ~tr_result
    /\ tr_max = 0 => /\ attempts_made = 0
                     /\ ~tr_result
                     /\ tr_pc \in {"setup", "running", "returned"}
    /\ (tr_pc = "running" /\ attempt >= tr_max) => ENABLED TRExhausted

\* the loop ran through all max_iterations > 3 attempts and returned False
C8_Witness ==
    /\ tr_pc = "returned"
    /\ ~tr_result
    /\ tr_max = MaxIter
    /\ attempts_made = tr_max

(***************************************************************************)
(* The Loop Guardian driven through its operations                         *)
(***************************************************************************)
\* LoopGuardian.__init__ for a configuration
\* the configurations the Guardian is constructed with: a reachable iteration
\* ceiling with a negative, a zero and a positive time ceiling, and a zero
\* iteration ceiling
GuardianConfigs ==
    {c \in [max_iterations : {0, MaxCount}, max_time_minutes : {-1, 0, 1},
            default_complexity : {"fast"}] :
        c.max_iterations = 0 => c.max_time_minutes = 1}

GuardianInit ==
    /\ config \in GuardianConfigs
    /\ worker_importable = TRUE
    /\ current_state = "planning"
    /\ complexity_mode = config.default_complexity
    /\ pc = "guardian"
    /\ iteration_count = 0
    /\ retry_count = 0
    /\ hash_history = <<>>
    /\ start_time = 0
    /\ clock = 0
    /\ plan_exists = FALSE
    /\ inbox = NoFile
    /\ session = NoFile
    /\ tr_pc = "idle"
    /\ tr_max = 0
    /\ attempt = 0
    /\ attempts_made = 0
    /\ persist_log = <<>>
    /\ commit_log = <<>>
    /\ tr_result = FALSE
    /\ all_failed = TRUE
    /\ late_loopy = <<>>
    /\ temperature = NoTemperature
    /\ generated = <<>>
    /\ branch_setup = "none"
    /\ mcp_process = "none"
    /\ retries_done = 0
    /\ last_call = NoCall
    /\ calls = <<>>
    /\ inbox_read = <<>>
    /\ at_pause = NoPause
    /\ entry = NoEntry
    /\ logged = <<>>
    /\ orchestrator_pid = None
    /\ replies = [r \in Requests |-> "none"]
    /\ threads = [r \in Requests |-> "none"]
    /\ processes = {}

\* what no Guardian operation touches
GuardianFrame ==
    UNCHANGED <<envVars, logVars, orchVars, fsVars, trVars, calls, runVars>>

\* "self.iteration_count += 1"
\* (faulty variant: the counter wraps around)
increment_iteration_alt(ic) == (ic + 1) % 2
increment_iteration(ic) == ic + 1

\* LoopGuardian.increment_iteration
GIncrementIteration ==
    /\ iteration_count < MaxCount
    /\ iteration_count' = increment_iteration(iteration_count)
    /\ last_call' = [op |-> "increment_iteration"]
    /\ UNCHANGED <<retry_count, hash_history, start_time, clock>>
    /\ GuardianFrame

\* LoopGuardian.increment_retry
GIncrementRetry ==
    /\ retry_count < MaxCount
    /\ retry_count' = retry_count + 1
    /\ last_call' = [op |-> "increment_retry"]
    /\ UNCHANGED <<iteration_count, hash_history, start_time, clock>>
    /\ GuardianFrame

\* LoopGuardian.detect_loop(code_output)
GDetectLoop(code_output) ==
    /\ Len(hash_history) < MaxHist
    /\ LET r == detect_loop(iteration_count, hash_history, code_output)
       IN  /\ hash_history' = r.hash_history
           /\ last_call' = [op |-> "detect_loop", output |-> code_output,
                            result |-> r.result, before |-> hash_history,
                            ic |-> iteration_count]
    /\ UNCHANGED <<iteration_count, retry_count, start_time, clock>>
    /\ GuardianFrame

\* LoopGuardian.should_terminate
GShouldTerminate ==
    /\ last_call' = [op |-> "should_terminate",
                     result |-> should_terminate(iteration_count, start_time,
                                                 clock, config)]
    /\ UNCHANGED <<guardianVars, clock>>
    /\ GuardianFrame

\* retry counts handed to get_escalated_temperature by a caller
RetryArgs == {5}

\* LoopGuardian.get_escalated_temperature(): with no argument (rc is
\* self.retry_count) or with a retry count of the caller's
GGetEscalatedTemperature ==
    \E rc \in {retry_count} \cup RetryArgs :
    /\ last_call' = [op |-> "get_escalated_temperature", rc |-> rc,
                     result |-> get_escalated_temperature(rc, config)]
    /\ UNCHANGED <<guardianVars, clock>>
    /\ GuardianFrame

\* LoopGuardian.check_completion_promise(output)
GCheckCompletionPromise(output) ==
    /\ last_call' = [op |-> "check_completion_promise", output |-> output,
                     result |-> check_completion_promise(output)]
    /\ UNCHANGED <<guardianVars, clock>>
    /\ GuardianFrame

\* what reset() assigns on a Guardian g when time.monotonic() is now
\* (faulty variant: hash_history is left as it is)
reset_alt(g, now) ==
    [start_time |-> now, iteration_count |-> 0, retry_count |-> 0,
     hash_history |-> g.hash_history]
reset(g, now) ==
    [start_time |-> now, iteration_count |-> 0, retry_count |-> 0,
     hash_history |-> <<>>]

\* LoopGuardian.reset; last_call keeps the counters reset() found and, when
\* the call before was a reset() too, the counters that one found
GReset ==
    LET g == [start_time |-> start_time, iteration_count |-> iteration_count,
              retry_count |-> retry_count, hash_history |-> hash_history]
        after == reset(g, clock)
    IN  /\ start_time' = after.start_time
        /\ iteration_count' = after.iteration_count
        /\ retry_count' = after.retry_count
        /\ hash_history' = after.hash_history
        /\ last_call' = [op |-> "reset", ic |-> iteration_count,
                         rc |-> retry_count,
                         prior |-> IF last_call.op = "reset"
                                   THEN <<last_call.ic, last_call.rc>>
                                   ELSE <<>>]
        /\ UNCHANGED clock
        /\ GuardianFrame

\* time passes between two operations (a tenth of a minute)
GTick ==
    /\ clock < ClockCap
    /\ clock' = Elapse(SecondsPerMinute \div 10)
    /\ last_call' = [op |-> "tick"]
    /\ UNCHANGED guardianVars
    /\ GuardianFrame

GuardianNext ==
    \/ GIncrementIteration
    \/ GIncrementRetry
    \/ \E code_output \in Outputs : GDetectLoop(code_output)
    \/ GShouldTerminate
    \/ GGetEscalatedTemperature
    \/ \E output \in {code_a, code_done} : GCheckCompletionPromise(output)
    \/ GReset
    \/ GTick

GuardianSpec == GuardianInit /\ [][GuardianNext]_vars

WindowInit ==
    /\ config \in {c \in Configs : c.default_complexity = "fast"
                                   /\ c.max_iterations = MaxIter
                                   /\ c.max_time_minutes = 2}
    /\ worker_importable = TRUE
    /\ current_state = "planning"
    /\ complexity_mode = config.default_complexity
    /\ pc = "window"
    /\ iteration_count \in LoopMinIterations..MaxCount
    /\ retry_count = 0
    /\ hash_history = <<>>
    /\ start_time = 0
    /\ clock = 0
    /\ plan_exists = FALSE
    /\ inbox = NoFile
    /\ session = NoFile
    /\ tr_pc = "idle"
    /\ tr_max = 0
    /\ attempt = 0
    /\ attempts_made = 0
    /\ persist_log = <<>>
    /\ commit_log = <<>>
    /\ tr_result = FALSE
    /\ all_failed = TRUE
    /\ late_loopy = <<>>
    /\ temperature = NoTemperature
    /\ generated = <<>>
    /\ branch_setup = "none"
    /\ mcp_process = "none"
    /\ retries_done = 0
    /\ last_call = NoCall
    /\ calls = <<>>
    /\ inbox_read = <<>>
    /\ at_pause = NoPause
    /\ entry = NoEntry
    /\ logged = <<>>
    /\ orchestrator_pid = None
    /\ replies = [r \in Requests |-> "none"]
    /\ threads = [r \in Requests |-> "none"]
    /\ processes = {}

\* the next detect_loop(code_output) call of the run: what it was given, what
\* it returned and how long hash_history was afterwards
WDetectLoop(code_output) ==
    /\ Len(calls) < MaxCalls
    /\ LET r == detect_loop(iteration_count, hash_history, code_output)
       IN  /\ hash_history' = r.hash_history
           /\ last_call' = [op |-> "detect_loop", output |-> code_output,
                            result |-> r.result, before |-> hash_history,
                            ic |-> iteration_count]
           /\ calls' = Append(calls, [output |-> code_output,
                                      result |-> r.result,
                                      size |-> Len(r.hash_history)])
    /\ UNCHANGED <<iteration_count, retry_count, start_time, clock>>
    /\ UNCHANGED <<envVars, logVars, orchVars, fsVars, trVars, runVars>>

WindowNext == \E code_output \in Outputs : WDetectLoop(code_output)

WindowSpec == WindowInit /\ [][WindowNext]_vars

\* every call of the run so far was given the same output
SameOutputRun == \A i \in DOMAIN calls : calls[i].output = calls[1].output

\* C11: from iteration_count >= 3 and an empty hash_history, consecutive
\* detect_loop calls with the same output return false on the 1st, 2nd and
\* 3rd call, leaving 1, 2 and 3 entries in hash_history, and true on the 4th
\* and every later call
C11_FourthIdenticalCall ==
    SameOutputRun =>
        \A i \in DOMAIN calls :
            IF i <= 3
            THEN ~calls[i].result /\ calls[i].size = i
            ELSE calls[i].result

\* the outputs a, b, a, b of the run have pairwise different digests
Alternating ==
    /\ Len(calls) = 4
    /\ calls[1].output = calls[3].output
    /\ calls[2].output = calls[4].output
    /\ compute_normalized_hash(calls[1].output)
           # compute_normalized_hash(calls[2].output)

\* C12: from iteration_count >= 3 and an empty hash_history, the calls
\* detect_loop(a), detect_loop(b), detect_loop(a), detect_loop(b) with
\* digest(a) # digest(b) return false on the final call
C12_AlternatingNotFlagged == Alternating => ~calls[4].result

\* C13: should_terminate() returns true if and only if iteration_count >=
\* max_iterations or the elapsed monotonic time >= max_time_minutes*60; so it
\* is true when max_iterations = 0, true when max_time_minutes <= 0, and true
\* as soon as iteration_count has reached a positive max_iterations
C13_ShouldTerminateIff ==
    last_call.op = "should_terminate" =>
        LET elapsed == clock - start_time
            reached == iteration_count >= config.max_iterations
            expired == 10 * elapsed >= config.max_time_minutes * 60
        IN  /\ last_call.result = (reached \/ expired)
            /\ config.max_iterations = 0 => last_call.result
            /\ config.max_time_minutes <= 0 => last_call.result
            /\ (config.max_iterations > 0
                /\ iteration_count = config.max_iterations) => last_call.result

\* a call that returns true with iteration_count exactly at a positive
\* max_iterations, before the time ceiling
C13_Witness ==
    /\ last_call.op = "should_terminate"
    /\ last_call.result
    /\ config.max_iterations > 0
    /\ iteration_count = config.max_iterations
    /\ config.max_time_minutes > 0
    /\ clock = start_time

\* C14: across any sequence of Guardian operations iteration_count and
\* retry_count never decrease, except in reset(), which sets both to 0
C14_CountersMonotone ==
    [][/\ (iteration_count' < iteration_count \/ retry_count' < retry_count)
           => last_call'.op = "reset"
       /\ last_call'.op = "reset" => (iteration_count' = 0 /\ retry_count' = 0)
      ]_vars

\* reset() has just brought both counters down from their largest values
C14_Witness ==
    /\ last_call.op = "reset"
    /\ last_call.ic = MaxCount
    /\ last_call.rc = MaxCount
    /\ iteration_count = 0
    /\ retry_count = 0

\* the counters under the Orchestrator: within one process no step of run()
\* and no command lowers them (resume() loads them into a fresh Guardian,
\* whose counters are 0)
CountersMonotoneInRun ==
    [][pc' # "restarted"
        => (iteration_count' >= iteration_count /\ retry_count' >= retry_count)
      ]_vars


(***************************************************************************)
(* Claims about the command queue, pause() and resume()                    *)
(***************************************************************************)
\* C15 as stated: the command queue is consumed and cleared atomically, so
\* no command appended while the main loop drains it is lost: whenever
\* inbox.md is cleared, every command it holds has been read by the drain
\* that clears it
C15_NoCommandLost ==
    [][(inbox # NoFile /\ inbox' = NoFile) => inbox.commands = inbox_read]_vars

\* C16 as stated: each command is processed exactly once: when a drain has
\* gone through the commands it read, also when one of them was /pause and
\* the process halted, those commands are no longer in inbox.md (only
\* commands appended after the read can be there)
C16_ProcessedOnce ==
    [][(pc = "commands" /\ pc' # "commands")
        => \/ inbox' = NoFile
           \/ Len(inbox'.commands) = Len(inbox.commands) - Len(inbox_read)
      ]_vars

\* C17: in every main-loop iteration the handler of the current state
\* completes, then the command queue is drained, then should_terminate() is
\* checked; pause() is executed only at the drain step, never while a
\* handler or a Task Runner attempt is in progress, and the current_state it
\* persists is the state the finished handler left
C17_PauseBetweenStates ==
    [][/\ (pc' = "inbox" /\ pc # "inbox") => pc \in {"loop", "building"}
       /\ (pc' = "check" /\ pc # "check") => pc \in {"inbox", "commands"}
       /\ (pc' = "commands" /\ pc # "commands") => pc = "inbox"
       /\ pc \in {"inbox", "commands"} => current_state' = current_state
       /\ session' # session
            => /\ pc = "commands"
               /\ pc' = "halted"
               /\ tr_pc = "idle"
               /\ session'.current_state = current_state
      ]_vars

\* a /pause drained after the Building handler had moved on to Verifying
C17_Witness ==
    /\ pc = "halted"
    /\ session # NoFile
    /\ session.current_state = "verifying"
    /\ current_state = "verifying"
    /\ entry.first = "planning"

C19_ResumeContinues ==
    entry.resumed_from # "none" =>
        /\ entry.first \in {"none", entry.resumed_from}
        /\ entry.resumed_from # "planning" => current_state # "planning"

\* a run resumed from Debugging whose Debugging handler has gone back to
\* Building
C19_Witness ==
    /\ entry.resumed_from = "debugging"
    /\ entry.first = "debugging"
    /\ current_state = "building"
    /\ pc = "inbox"

(***************************************************************************)
(* resume() called on whatever is found at session.json                    *)
(***************************************************************************)
\* the keys of the record pause() writes
SessionKeys == {"current_state", "complexity_mode", "loop_guardian", "timestamp"}

\* JSON objects carrying all four keys; the state name and the mode name may
\* be ones the program does not know
FullRecords ==
    [exists : {TRUE}, current_state : States \cup {"paused"},
     complexity_mode : {"fast", "full", "turbo"},
     loop_guardian : [iteration_count : {0}, retry_count : {0, RetryCeiling},
                      hash_history : {<<>>}, elapsed : {0}],
     timestamp : {"now"}]

\* the record r without its key k
Without(r, k) == [x \in DOMAIN r \ {k} |-> r[x]]

\* what resume() may find: no file, a file that is not JSON, a full record,
\* or a record with one key missing
SessionFiles ==
    {NoFile, [exists |-> TRUE, garbage |-> TRUE]}
        \cup FullRecords
        \cup {Without(r, k) : r \in FullRecords, k \in SessionKeys}

\* a newly constructed Orchestrator (streamlined by default) and the file
ResumeInit ==
    /\ config \in {c \in Configs : /\ c.default_complexity = "streamlined"
                                   /\ c.max_iterations = MaxIter
                                   /\ c.max_time_minutes = 2}
    /\ worker_importable = TRUE
    /\ current_state = "planning"
    /\ complexity_mode = config.default_complexity
    /\ pc = "init"
    /\ iteration_count = 0
    /\ retry_count = 0
    /\ hash_history = <<>>
    /\ start_time = 0
    /\ clock = 0
    /\ plan_exists = FALSE
    /\ inbox = NoFile
    /\ session \in SessionFiles
    /\ tr_pc = "idle"
    /\ tr_max = 0
    /\ attempt = 0
    /\ attempts_made = 0
    /\ persist_log = <<>>
    /\ commit_log = <<>>
    /\ tr_result = FALSE
    /\ all_failed = TRUE
    /\ late_loopy = <<>>
    /\ temperature = NoTemperature
    /\ generated = <<>>
    /\ branch_setup = "none"
    /\ mcp_process = "none"
    /\ retries_done = 0
    /\ last_call = NoCall
    /\ calls = <<>>
    /\ inbox_read = <<>>
    /\ at_pause = NoPause
    /\ entry = NoEntry
    /\ logged = <<>>
    /\ orchestrator_pid = None
    /\ replies = [r \in Requests |-> "none"]
    /\ threads = [r \in Requests |-> "none"]
    /\ processes = {}

ResumeNext == Resume

ResumeSpec == ResumeInit /\ [][ResumeNext]_vars

\* the file is missing, unparseable, lacks a field or names an unknown state
Corrupt(file) ==
    \/ ~file.exists
    \/ "garbage" \in DOMAIN file
    \/ ~(SessionKeys \subseteq DOMAIN file)
    \/ file.current_state \notin States

\* C20: resume() with a missing persisted file, or with a file that is
\* unparseable, lacks a field or holds an unknown current_state value,
\* returns False and raises nothing
C20_ResumeReportsFailure ==
    /\ pc # "raised"
    /\ Corrupt(session) => pc # "resumed"

\* resume() has returned False on a record whose current_state is no State
C20_Witness ==
    /\ pc = "not_resumed"
    /\ session.exists
    /\ SessionKeys \subseteq DOMAIN session
    /\ session.current_state \notin States
    /\ current_state = "planning"

\* the double nearest tenths/10
Exactly(tenths) == Float(tenths, 0)

\* C21: get_escalated_temperature(r) is base, base+0.3, base+0.6, base+0.6,
\* ... for r = 0, 1, 2, 3, ...; with base_temperature 0.7 the values are
\* 0.7, 1.0, 1.3 and 1.3 from r = 2 on
C21_EscalationSchedule ==
    last_call.op = "get_escalated_temperature" =>
        last_call.result =
            Exactly(<<7, 10, 13>>[IF last_call.rc >= 2 THEN 3
                                  ELSE last_call.rc + 1])

\* C22: on every attempt a the temperature the Task Runner passes to the
\* generation step is the Guardian's get_escalated_temperature(a) for the
\* run's configuration
C22_RunnerUsesGuardianSchedule ==
    temperature.given =>
        temperature.value = get_escalated_temperature(temperature.attempt, config)

\* the digest of text is the digest of one of the last HashWindow texts of
\* earlier
RepeatsEarlier(text, earlier) ==
    InSeq(compute_normalized_hash(text),
          [i \in DOMAIN LastN(earlier, HashWindow) |->
              compute_normalized_hash(LastN(earlier, HashWindow)[i])])

\* C23: on a failed attempt the Task Runner's loop check reports a loop
\* exactly when the digest of the attempt's output is the digest of the
\* output of one of the up to 3 preceding attempts of the task, and the
\* runner goes past the 3-attempt ceiling only then
C23_RunnerLoopCheckIsDigestMatch ==
    [][(/\ tr_pc = "running"
        /\ Len(generated') = Len(generated) + 1
        /\ persist_log' = persist_log)
        => LET text == generated'[Len(generated')]
           IN  /\ _detect_loop(text, attempt) <=> RepeatsEarlier(text, generated)
               /\ (attempt >= AttemptBreakIndex /\ tr_pc' = "running")
                    => RepeatsEarlier(text, generated)
      ]_vars

\* C24: a create_branch or switch_branch that raises at the entry of the
\* Task Runner does not leave execute(): the attempt loop is entered from
\* its first index whatever the branch setup did
C24_BranchSetupBestEffort ==
    [][tr_pc = "setup" => (tr_pc' = "running" /\ attempt' = 0)]_vars

\* after a failed branch setup the call has returned True with the passing
\* response persisted and committed
C24_Witness ==
    /\ branch_setup = "failed"
    /\ tr_pc = "returned"
    /\ tr_result
    /\ Len(commit_log) = 1
    /\ Len(persist_log) = 1

(***************************************************************************)
(* The Isolation Client driven through its three operations                *)
(***************************************************************************)
\* "../../etc/passwd"
name_traversal == <<".", ".", "/", ".", ".", "/", "e", "t", "c", "/",
                    "p", "a", "s", "s", "w", "d">>
\* 100 allowed characters
name_long == [i \in 1..100 |-> "a"]
\* 100 characters, every third one a path separator
name_long_mixed == [i \in 1..100 |-> IF i % 3 = 0 THEN "/" ELSE "k"]
\* a name with shell punctuation
name_shell == <<"a", ";", " ", "-", "_", "Z", "7">>
\* the names handed to create_branch and switch_branch
BranchNames == {branch_name, name_traversal, name_long, name_long_mixed,
                name_shell, <<>>}
\* the messages handed to commit
Messages == {"Auto-commit task 7e", "fix: a/b"}

ClientInit ==
    /\ config \in {c \in Configs : /\ c.default_complexity = "streamlined"
                                   /\ c.max_iterations = MaxIter
                                   /\ c.max_time_minutes = 2}
    /\ worker_importable = TRUE
    /\ current_state = "planning"
    /\ complexity_mode = config.default_complexity
    /\ pc = "client"
    /\ iteration_count = 0
    /\ retry_count = 0
    /\ hash_history = <<>>
    /\ start_time = 0
    /\ clock = 0
    /\ plan_exists = FALSE
    /\ inbox = NoFile
    /\ session = NoFile
    /\ tr_pc = "idle"
    /\ tr_max = 0
    /\ attempt = 0
    /\ attempts_made = 0
    /\ persist_log = <<>>
    /\ commit_log = <<>>
    /\ tr_result = FALSE
    /\ all_failed = TRUE
    /\ late_loopy = <<>>
    /\ temperature = NoTemperature
    /\ generated = <<>>
    /\ branch_setup = "none"
    /\ mcp_process = "none"
    /\ retries_done = 0
    /\ last_call = NoCall
    /\ calls = <<>>
    /\ inbox_read = <<>>
    /\ at_pause = NoPause
    /\ entry = NoEntry
    /\ logged = <<>>
    /\ orchestrator_pid = None
    /\ replies = [r \in Requests |-> "none"]
    /\ threads = [r \in Requests |-> "none"]
    /\ processes = {}

ClientFrame ==
    UNCHANGED <<envVars, logVars, orchVars, guardianVars, clock, fsVars, trVars, calls,
                runVars>>

\* the call just made: the operation of a client built with
\* HYBRIDCONDUCTOR_OFFLINE such that self.enabled = enabled, its argument,
\* what the network does, what git does (the first failure among the
\* fallback's commands, "ok" if there is none), and what came of it
Called(op, enabled, arg, net, git, done) ==
    [op |-> op, enabled |-> enabled, arg |-> arg, net |-> net, git |-> git,
     calls |-> done.calls, raised |-> done.raised]

\* McpClient().create_branch(name)
CCreateBranch ==
    \E enabled \in BOOLEAN, name \in BranchNames, net \in NetOutcomes,
       git \in GitOutcomes :
        /\ last_call' = Called("create_branch", enabled, name, net, git,
                               create_branch(enabled, name, net, git))
        /\ ClientFrame

\* McpClient().switch_branch(name)
CSwitchBranch ==
    \E enabled \in BOOLEAN, name \in BranchNames, net \in NetOutcomes,
       git \in GitOutcomes :
        /\ last_call' = Called("switch_branch", enabled, name, net, git,
                               switch_branch(enabled, name, net, git))
        /\ ClientFrame

\* McpClient().commit(message); git add and git commit run without a timeout
CCommit ==
    \E enabled \in BOOLEAN, message \in Messages, net \in NetOutcomes,
       add, git \in GitOutcomes \ {"timeout"} :
        /\ last_call' = Called("commit", enabled, message, net,
                               IF add # "ok" THEN add ELSE git,
                               commit(enabled, message, net, add, git))
        /\ ClientFrame

ClientNext == CCreateBranch \/ CSwitchBranch \/ CCommit

ClientSpec == ClientInit /\ [][ClientNext]_vars

BranchOps == {"create_branch", "switch_branch"}

\* the argument an external call carries
Carried(call) ==
    IF call.via = "network" THEN call.arg ELSE call.argv[Len(call.argv)]

\* name without the characters that are neither alphanumeric nor - nor _
Stripped(name) == SelectSeq(name, LAMBDA c : c \notin {".", "/", " ", ";"})

\* C25: every branch name create_branch or switch_branch hands to the
\* service or to git holds only alphanumeric characters, - and _, is at
\* most 50 characters long, and is the input with every other character
\* removed, cut to its first 50 characters ("../../etc/passwd" becomes
\* "etcpasswd", 100 characters become 50)
C25_BranchNamesSanitized ==
    last_call.op \in BranchOps =>
        \A i \in DOMAIN last_call.calls :
            LET handed == Carried(last_call.calls[i])
            IN  /\ \A j \in DOMAIN handed :
                      handed[j] \in AlnumChars \cup {"-", "_"}
                /\ Len(handed) <= 50
                /\ handed = SubSeq(Stripped(last_call.arg), 1,
                                   Min(50, Len(Stripped(last_call.arg))))
                /\ last_call.arg = name_traversal
                     => handed = <<"e", "t", "c", "p", "a", "s", "s", "w", "d">>
                /\ last_call.arg = name_long => Len(handed) = 50

\* "../../etc/passwd" has gone to the service and to git as "etcpasswd"
C25_Witness ==
    /\ last_call.op = "create_branch"
    /\ last_call.arg = name_traversal
    /\ Len(last_call.calls) = 2
    /\ Carried(last_call.calls[2]) = <<"e", "t", "c", "p", "a", "s", "s", "w", "d">>

\* the external calls of the last operation that run git
GitCalls == {i \in DOMAIN last_call.calls : last_call.calls[i].via = "subprocess"}

C27_CommitSwallowsBranchOpsRaise ==
    (/\ last_call.op # "none"
     /\ last_call.enabled
     /\ last_call.net # "ok"
     /\ last_call.git # "ok") =>
        IF last_call.op = "commit" THEN last_call.raised = "none"
        ELSE last_call.raised # "none"

(***************************************************************************)
(* The Hash Normalizer applied to one text after another                   *)
(***************************************************************************)
\* the tokens whose values vary from run to run, by category
VolatileClasses ==
    {IsoTimestamps, HexAddrs, WinPaths, PosixPaths \cup DigitPaths,
     PidPairs \cup LongPidPairs, TidPairs \cup LongTidPairs}
VolatileTokens == UNION VolatileClasses

\* the texts handed to the normalizer: one line of code and one more token
HashTexts == {<<"x = 1", tok>> : tok \in VolatileTokens \cup {"return x"}}

HashInit ==
    /\ config \in {c \in Configs : /\ c.default_complexity = "streamlined"
                                   /\ c.max_iterations = MaxIter
                                   /\ c.max_time_minutes = 2}
    /\ worker_importable = TRUE
    /\ current_state = "planning"
    /\ complexity_mode = config.default_complexity
    /\ pc = "hash"
    /\ iteration_count = 0
    /\ retry_count = 0
    /\ hash_history = <<>>
    /\ start_time = 0
    /\ clock = 0
    /\ plan_exists = FALSE
    /\ inbox = NoFile
    /\ session = NoFile
    /\ tr_pc = "idle"
    /\ tr_max = 0
    /\ attempt = 0
    /\ attempts_made = 0
    /\ persist_log = <<>>
    /\ commit_log = <<>>
    /\ tr_result = FALSE
    /\ all_failed = TRUE
    /\ late_loopy = <<>>
    /\ temperature = NoTemperature
    /\ generated = <<>>
    /\ branch_setup = "none"
    /\ mcp_process = "none"
    /\ retries_done = 0
    /\ last_call = NoCall
    /\ calls = <<>>
    /\ inbox_read = <<>>
    /\ at_pause = NoPause
    /\ entry = NoEntry
    /\ logged = <<>>
    /\ orchestrator_pid = None
    /\ replies = [r \in Requests |-> "none"]
    /\ threads = [r \in Requests |-> "none"]
    /\ processes = {}

\* compute_normalized_hash(output); calls keeps this call and the one before
HComputeNormalizedHash(output) ==
    /\ calls' = LastN(Append(calls, [output |-> output,
                                     normalized |-> normalize_output(output),
                                     digest |-> compute_normalized_hash(output)]),
                      2)
    /\ UNCHANGED <<envVars, logVars, orchVars, guardianVars, clock, fsVars, trVars,
                   last_call, runVars>>

HashNext == \E output \in HashTexts : HComputeNormalizedHash(output)

HashSpec == HashInit /\ [][HashNext]_vars

\* a and b differ at most in the values of volatile tokens: token by token
\* they are equal or of the same volatile category
DifferOnlyInVolatile(a, b) ==
    /\ Len(a) = Len(b)
    /\ \A i \in DOMAIN a :
          \/ a[i] = b[i]
          \/ \E class \in VolatileClasses : a[i] \in class /\ b[i] \in class

\* C28: two texts that differ only in the values of volatile tokens (ISO
\* timestamps, hex addresses, absolute paths, pid=/tid= values) have the
\* same normalized text and the same digest, whatever the values are
C28_VolatileValuesDoNotMatter ==
    (Len(calls) = 2 /\ DifferOnlyInVolatile(calls[1].output, calls[2].output))
        => /\ calls[1].normalized = calls[2].normalized
           /\ calls[1].digest = calls[2].digest

\* C29: reset() from any reachable Guardian state leaves iteration_count = 0,
\* retry_count = 0 and hash_history empty, and a reset() right after a
\* reset() leaves the counters and the history as the first one left them
C29_ResetIdempotent ==
    [][last_call'.op = "reset" =>
          /\ iteration_count' = 0
          /\ retry_count' = 0
          /\ hash_history' = <<>>
          /\ last_call.op = "reset" =>
                /\ iteration_count' = iteration_count
                /\ retry_count' = retry_count
                /\ hash_history' = hash_history
      ]_vars

\* reset() has been called twice in a row, the first time with both counters
\* at their largest values
C29_Witness ==
    /\ last_call.op = "reset"
    /\ last_call.prior = <<MaxCount, MaxCount>>
    /\ last_call.ic = 0
    /\ iteration_count = 0
    /\ retry_count = 0
    /\ hash_history = <<>>

\* the closed set of status values of the activity log
ActivityStatuses ==
    {"STARTED", "RUNNING", "COMPLETED", "FAILED", "LOOP_DETECTED",
     "CHECKPOINT_CREATED", "PAUSED", "RESUMED", "ERROR"}

\* C30: every status value the Orchestrator writes to the activity log, in
\* any run and for any processed command, is one of STARTED, RUNNING,
\* COMPLETED, FAILED, LOOP_DETECTED, CHECKPOINT_CREATED, PAUSED, RESUMED, ERROR
C30_StatusesInClosedSet ==
    \A i \in DOMAIN logged : logged[i] \in ActivityStatuses

(***************************************************************************)
(* C31 .. C39                                                              *)
(***************************************************************************)

\* a run that started in Planning without a restored session
FreshRun == entry.resumed_from = "none" /\ entry.first = "planning"

HappyPath == <<"planning", "building", "verifying">>

\* C31: in every complexity mode, a fresh run whose first Building phase got
\* success from the Task Runner dispatches no other handlers than Planning,
\* Building, Verifying, in that order, and leaves the main loop in Complete
\* after exactly these three; a Building phase that got failure moves to
\* Debugging, never to Verifying.
C31_HappyPath ==
    /\ [](FreshRun /\ entry.built = "success" =>
            entry.handlers \in {SubSeq(HappyPath, 1, 2), HappyPath})
    /\ [][/\ (pc = "loop" /\ pc' = "done" /\ FreshRun
                /\ entry.built = "success") =>
                  (current_state = "complete" /\ entry.handlers = HappyPath)
          /\ (pc = "building" /\ tr_pc = "returned" /\ pc' = "inbox") =>
                  current_state' = (IF tr_result THEN "verifying"
                                                 ELSE "debugging")]_vars

C31_Witness ==
    /\ pc = "done"
    /\ FreshRun
    /\ entry.built = "success"
    /\ entry.handlers = HappyPath
    /\ current_state = "complete"
    /\ complexity_mode = "full"

\* C32: for every positive max_iterations a fresh run dispatches at most
\* max_iterations handlers before should_terminate() ends it, whatever the
\* clock shows, because iteration_count advances with the main loop's
\* iterations.
C32_IterationCeilingBoundsRun ==
    (FreshRun /\ config.max_iterations > 0) =>
        /\ Len(entry.handlers) <= config.max_iterations
        /\ iteration_count >= Len(entry.handlers) - 1

\* C33: a resume() that returned False left the Orchestrator as it was
\* constructed: state, mode and Guardian are unchanged, also when the record
\* held a valid current_state but no usable complexity_mode or loop_guardian
C33_FailedResumeHasNoEffect ==
    pc = "not_resumed" =>
        /\ current_state = "planning"
        /\ complexity_mode = config.default_complexity
        /\ iteration_count = 0
        /\ retry_count = 0
        /\ hash_history = <<>>
        /\ start_time = 0

\* what should_terminate() returns when called in the current state
Terminating == should_terminate(iteration_count, start_time, clock, config)

\* C34: once should_terminate() is true it stays true under every
\* interleaving of increment_iteration, increment_retry, detect_loop,
\* get_escalated_temperature, check_completion_promise, should_terminate and
\* the advance of the clock, until reset() is called
C34_ShouldTerminateStable ==
    [][/\ (Terminating /\ last_call'.op # "reset") => Terminating'
       /\ (last_call'.op = "should_terminate" /\ Terminating)
              => last_call'.result]_vars

\* should_terminate() returns true again after the time ceiling was passed
\* more than a tick ago, with iterations and retries counted and the
\* iteration ceiling not reached
C34_Witness ==
    /\ last_call.op = "should_terminate"
    /\ last_call.result
    /\ config.max_time_minutes > 0
    /\ clock - start_time > max_time_seconds(config)
    /\ iteration_count \in 1 .. (config.max_iterations - 1)
    /\ retry_count > 0

C36_NoBlocksIsFailure ==
    /\ [](/\ \A k \in DOMAIN persist_log : persist_log[k].blocks # <<>>
          /\ \A k \in DOMAIN commit_log : commit_log[k].blocks # <<>>)
    /\ [][(tr_pc = "running" /\ tr_pc' = "returned" /\ tr_result') =>
            /\ Len(persist_log') = Len(persist_log) + 1
            /\ persist_log'[Len(persist_log')].blocks # <<>>
            /\ commit_log' = persist_log'
         ]_vars

\* the call returned False although some attempt had no block failing BIST:
\* that attempt's response held no block at all
C36_Witness ==
    /\ tr_pc = "returned"
    /\ ~tr_result
    /\ ~all_failed
    /\ attempts_made >= 3
    /\ persist_log = <<>>
    /\ commit_log = <<>>

\* C37: the terminal event agrees with the state: when a run has ended,
\* COMPLETED was logged only with current_state Complete and FAILED only with
\* current_state Failed, and a run halted by /pause has logged neither
\* COMPLETED nor FAILED after PAUSED
C37_TerminalEventAgrees ==
    pc \in {"done", "halted"} =>
        \A i \in DOMAIN logged :
            /\ logged[i] = "COMPLETED" => current_state = "complete"
            /\ logged[i] = "FAILED" => current_state = "failed"
            /\ pc = "halted" => logged[i] \notin {"COMPLETED", "FAILED"}

\* C38: whenever execute_task has been left, by returning True or False or
\* by an exception of the branch setup or of an attempt, the helper process
\* it launched at entry has been terminated or, when it outlived the wait,
\* killed; until then the helper is the one running child of the call
C38_HelperAlwaysStopped ==
    /\ tr_pc \in {"returned", "raised"} => mcp_process \in {"terminated", "killed"}
    /\ tr_pc \in {"setup", "running"} => mcp_process = "running"

\* an attempt raised and the helper, which did not exit within the wait, was
\* killed
C38_Witness ==
    /\ tr_pc = "raised"
    /\ mcp_process = "killed"
    /\ attempts_made >= 2


(***************************************************************************)
(* The dashboard bridge (backend/dashboard/app.py)                         *)
(***************************************************************************)
\* the dashboard module loaded: no request received, no subprocess recorded
BridgeInit ==
    /\ config \in {c \in Configs : /\ c.default_complexity = "streamlined"
                                   /\ c.max_iterations = MaxIter
                                   /\ c.max_time_minutes = 2}
    /\ worker_importable = TRUE
    /\ current_state = "planning"
    /\ complexity_mode = config.default_complexity
    /\ pc = "bridge"
    /\ iteration_count = 0
    /\ retry_count = 0
    /\ hash_history = <<>>
    /\ start_time = 0
    /\ clock = 0
    /\ plan_exists = FALSE
    /\ inbox = NoFile
    /\ session = NoFile
    /\ tr_pc = "idle"
    /\ tr_max = 0
    /\ attempt = 0
    /\ attempts_made = 0
    /\ persist_log = <<>>
    /\ commit_log = <<>>
    /\ tr_result = FALSE
    /\ all_failed = TRUE
    /\ late_loopy = <<>>
    /\ temperature = NoTemperature
    /\ generated = <<>>
    /\ branch_setup = "none"
    /\ mcp_process = "none"
    /\ retries_done = 0
    /\ last_call = NoCall
    /\ calls = <<>>
    /\ inbox_read = <<>>
    /\ at_pause = NoPause
    /\ entry = NoEntry
    /\ logged = <<>>
    /\ orchestrator_pid = None
    /\ replies = [r \in Requests |-> "none"]
    /\ threads = [r \in Requests |-> "none"]
    /\ processes = {}

\* what no step of the bridge touches
BridgeFrame ==
    UNCHANGED <<config, worker_importable, logVars, orchVars, guardianVars,
                clock, fsVars, trVars, obsVars, runVars>>

\* the commands posted to /api/console
ConsoleCommands == {"", "build it"}

\* console(): 400 for an empty command, 409 when a pid is recorded, else the
\* background thread is started and the request is answered "started"
console(r) ==
    \E command \in ConsoleCommands :
        /\ replies[r] = "none"
        /\ IF command = ""
           THEN /\ replies' = [replies EXCEPT ![r] = "400"]
                /\ UNCHANGED threads
           ELSE IF orchestrator_pid # None
           THEN /\ replies' = [replies EXCEPT ![r] = "409"]
                /\ UNCHANGED threads
           ELSE /\ replies' = [replies EXCEPT ![r] = "started"]
                /\ threads' = [threads EXCEPT ![r] = "started"]
        /\ UNCHANGED <<orchestrator_pid, processes>>
        /\ BridgeFrame

\* how the start of the subprocess in _run_orchestrator ends: orchestrator.py
\* is not there (return before the try), Popen raises, or the child runs
PopenOutcomes == {"no_script", "raises", "child"}

\* _run_orchestrator up to subprocess.Popen
Popen(r) ==
    \E outcome \in PopenOutcomes :
        /\ threads[r] = "started"
        /\ CASE outcome = "no_script" ->
                    /\ threads' = [threads EXCEPT ![r] = "finished"]
                    /\ UNCHANGED <<orchestrator_pid, processes>>
             [] outcome = "raises" ->
                    /\ threads' = [threads EXCEPT ![r] = "finished"]
                    /\ orchestrator_pid' = None
                    /\ UNCHANGED processes
             [] outcome = "child" ->
                    /\ threads' = [threads EXCEPT ![r] = "launched"]
                    /\ processes' = processes \cup {r}
                    /\ UNCHANGED orchestrator_pid
        /\ UNCHANGED replies
        /\ BridgeFrame

\* app_state["orchestrator_pid"] = process.pid
RecordPid(r) ==
    /\ threads[r] = "launched"
    /\ orchestrator_pid' = r
    /\ threads' = [threads EXCEPT ![r] = "streaming"]
    /\ UNCHANGED <<replies, processes>>
    /\ BridgeFrame

\* the orchestrator subprocess p ends: its stdout reaches end of file
ProcessExit(p) ==
    /\ p \in processes
    /\ processes' = processes \ {p}
    /\ UNCHANGED <<orchestrator_pid, replies, threads>>
    /\ BridgeFrame

\* _run_orchestrator from the end of the output on: process.wait() and the
\* finally clause, which clears the recorded pid
Finish(r) ==
    /\ threads[r] = "streaming"
    /\ r \notin processes
    /\ orchestrator_pid' = None
    /\ threads' = [threads EXCEPT ![r] = "finished"]
    /\ UNCHANGED <<replies, processes>>
    /\ BridgeFrame

BridgeNext ==
    \E r \in Requests :
        \/ console(r)
        \/ Popen(r)
        \/ RecordPid(r)
        \/ ProcessExit(r)
        \/ Finish(r)

BridgeSpec == BridgeInit /\ [][BridgeNext]_vars

\* the requests whose orchestrator is being started or is running
Orchestrating ==
    {r \in Requests : threads[r] \in {"started", "launched", "streaming"}}

\* C39: the bridge runs at most one orchestrator subprocess at a time: under
\* every interleaving of /api/console requests with the background threads
\* that launch the subprocess and record orchestrator_pid, at most one
\* orchestrator is being started or running, at most one subprocess is
\* alive, and a request that arrives meanwhile is answered 409
C39_OneOrchestratorAtATime ==
    /\ Cardinality(Orchestrating) <= 1
    /\ Cardinality(processes) <= 1
====
